---- MODULE Spec2Model ----
(***************************************************************************)
(* docflu: push of a Docusaurus docs tree to a Confluence space (syncFile, *)
(* syncDocs) and reverse sync of changed pages back to the local files     *)
(* (syncReverse), with the ConfluenceClient page operations they call.     *)
(* The Confluence space, the local files and the persisted sync state are  *)
(* the environment; one run of a command is a sequence of steps.           *)
(***************************************************************************)
EXTENDS Integers, Sequences, FiniteSets, TLC

\* ------------------------------------------------------------------ bounds
\* number of command runs explored
MaxRuns == 2
\* number of disturbances explored: edits and deletions of local files by the
\* user, edits of pages on the wiki by other users, requests and steps that throw
QuietRuns == 2
MaxEvents == 2

\* ------------------------------------------------------------ strings
\* A string is a sequence of one-character strings.
NoString == <<>>

IsWordChar(c) == c \notin {" ", "-", "/"}

toUpperCase(c) ==
  CASE c = "a" -> "A"
    [] c = "b" -> "B"
    [] c = "c" -> "C"
    [] c = "x" -> "X"
    [] OTHER -> c

\* segment.replace(/-/g, ' ')
ReplaceHyphens(s) == [i \in DOMAIN s |-> IF s[i] = "-" THEN " " ELSE s[i]]

\* .replace(/\b\w/g, c => c.toUpperCase()): a word character that starts a word
CapitalizeWords(s) ==
  [i \in DOMAIN s |->
     IF IsWordChar(s[i]) /\ (i = 1 \/ ~IsWordChar(s[i - 1]))
     THEN toUpperCase(s[i]) ELSE s[i]]

\* mutant: the words of the title are not capitalized
formatCategoryTitleRaw(segment) == ReplaceHyphens(segment)

formatCategoryTitle(segment) == CapitalizeWords(ReplaceHyphens(segment))

\* categoryPath.split('/').filter(Boolean)
RECURSIVE SplitFrom(_, _, _)
SplitFrom(s, i, cur) ==
  IF i > Len(s)
  THEN (IF cur = <<>> THEN <<>> ELSE <<cur>>)
  ELSE IF s[i] = "/"
       THEN (IF cur = <<>> THEN <<>> ELSE <<cur>>) \o SplitFrom(s, i + 1, <<>>)
       ELSE SplitFrom(s, i + 1, Append(cur, s[i]))

Segments(categoryPath) == SplitFrom(categoryPath, 1, <<>>)

\* ------------------------------------------------------------ the project
\* The Docusaurus projects the scanner can find: relativePath, title, category
\* (derived from the folder) and whether the document has images or diagrams.
Docs ==
  [ p1 |-> [relativePath |-> "p1", title |-> <<"O">>,
            category |-> <<"a", "/", "x">>, hasImages |-> TRUE],
    p2 |-> [relativePath |-> "p2", title |-> <<"T">>,
            category |-> <<"b", "/", "x">>, hasImages |-> FALSE],
    q1 |-> [relativePath |-> "q1", title |-> <<"I">>, category |-> NoString,
            hasImages |-> FALSE],
    q2 |-> [relativePath |-> "q2", title |-> <<"H">>,
            category |-> <<"a", "/", "b", "/", "c">>, hasImages |-> TRUE],
    r1 |-> [relativePath |-> "r1", title |-> <<"S">>,
            category |-> <<"c", "/", "a">>, hasImages |-> FALSE],
    r2 |-> [relativePath |-> "r2", title |-> <<"S">>,
            category |-> <<"c", "/", "b">>, hasImages |-> FALSE],
    s1 |-> [relativePath |-> "s1", title |-> <<"U">>,
            category |-> <<"a">>, hasImages |-> FALSE],
    s2 |-> [relativePath |-> "s2", title |-> <<"V">>,
            category |-> <<"A">>, hasImages |-> FALSE] ]

Paths == DOMAIN Docs

\* scan order of the docs directory
PathOrder == <<"p1", "p2", "q1", "q2", "r1", "r2", "s1", "s2">>

\* title of the space's root page
RootTitle == <<"D">>

\* the installations explored: the files of the project and config.rootPageTitle
Projects ==
  { [files |-> {"p1", "p2"}, rootPageTitle |-> RootTitle],
    [files |-> {"q1", "q2"}, rootPageTitle |-> NoString],
    [files |-> {"r1", "r2"}, rootPageTitle |-> RootTitle],
    [files |-> {"s1", "s2"}, rootPageTitle |-> RootTitle] }

\* ------------------------------------------------------------ values
None == [none |-> TRUE]
NoPage == 0

ZeroStats == [processed |-> 0, created |-> 0, updated |-> 0, skipped |-> 0,
              failed |-> 0]

Max(a, b) == IF a >= b THEN a ELSE b

Min(S) == CHOOSE x \in S : \A y \in S : x <= y

RECURSIVE SeqOfSet(_, _)
SeqOfSet(order, S) ==
  IF order = <<>> THEN <<>>
  ELSE (IF Head(order) \in S THEN <<Head(order)>> ELSE <<>>)
       \o SeqOfSet(Tail(order), S)

Range(s) == {s[i] : i \in DOMAIN s}

\* [...new Set(xs)]: first occurrences, in order
RECURSIVE Distinct(_)
Distinct(xs) ==
  IF xs = <<>> THEN <<>>
  ELSE LET r == Distinct(SubSeq(xs, 1, Len(xs) - 1))
           x == xs[Len(xs)]
       IN IF x \in Range(r) THEN r ELSE Append(r, x)


\* ------------------------------------------------------------ ConfluenceClient
\* The space is a sequence of pages; the id of a page is its position.
\* A client call returns [ok, wiki, id, version, title, calls]: ok is FALSE when
\* the request threw, calls are the write requests issued, in order.

\* existingPage.version?.number || 1
VersionNumber(page) == IF page.version = 0 THEN 1 ELSE page.version

\* GET /content?spaceKey&title: results[0], or null
findPageByTitle(w, title) ==
  LET results == {i \in DOMAIN w : w[i].title = title}
  IN IF results # {} THEN Min(results) ELSE NoPage

\* GET /content/{id}/child/page
getPageChildren(w, pageId) == {i \in DOMAIN w : w[i].parent = pageId}

findPageByTitleAndParent(w, title, parentId) ==
  IF parentId = NoPage
  THEN findPageByTitle(w, title)
  ELSE LET found == {i \in getPageChildren(w, parentId) : w[i].title = title}
       IN IF found # {} THEN Min(found) ELSE NoPage

\* POST /content: a new page at version 1, under parentId when given
createPage(w, title, content, parentId, ok, by) ==
  LET call == [op |-> "create", id |-> Len(w) + 1, sent |-> 1, cur |-> 0,
               parent |-> parentId, by |-> by, ok |-> ok]
  IN IF ok
     THEN [ok |-> TRUE,
           wiki |-> Append(w, [title |-> title, parent |-> parentId,
                               version |-> 1, body |-> content,
                               attachments |-> FALSE]),
           id |-> Len(w) + 1, version |-> 1, title |-> title,
           calls |-> <<call>>]
     ELSE [ok |-> FALSE, wiki |-> w, id |-> NoPage, version |-> 0,
           title |-> title, calls |-> <<call>>]

\* PUT /content/{id} with version.number: the space accepts the write only when
\* the number is the successor of the page's version
updatePage(w, pageId, title, content, version, ok, by) ==
  LET call == [op |-> "update", id |-> pageId, sent |-> version,
               cur |-> w[pageId].version, parent |-> NoPage, by |-> by,
               ok |-> ok /\ version = w[pageId].version + 1]
  IN IF call.ok
     THEN [ok |-> TRUE,
           wiki |-> [w EXCEPT ![pageId].title = title,
                              ![pageId].body = content,
                              ![pageId].version = version],
           id |-> pageId, version |-> version, title |-> title,
           calls |-> <<call>>]
     ELSE [ok |-> FALSE, wiki |-> w, id |-> NoPage, version |-> 0,
           title |-> title, calls |-> <<call>>]

\* A read request that fails is caught inside the client: findPageByTitle
\* returns null and getPageChildren returns []. reads tells which of the two
\* kinds of read succeed.
AllReads == [search |-> TRUE, children |-> TRUE]

findPageByTitleCaught(w, title, reads) ==
  IF reads.search THEN findPageByTitle(w, title) ELSE NoPage

findPageByTitleAndParentCaught(w, title, parentId, reads) ==
  IF parentId = NoPage
  THEN findPageByTitleCaught(w, title, reads)
  ELSE IF reads.children
  THEN findPageByTitleAndParent(w, title, parentId)
  ELSE NoPage

createOrUpdatePageReading(w, title, content, parentId, reads, ok, by) ==
  LET existingPage == findPageByTitleCaught(w, title, reads)
  IN IF existingPage # NoPage
     THEN updatePage(w, existingPage, title, content,
                     VersionNumber(w[existingPage]) + 1, ok, by)
     ELSE createPage(w, title, content, parentId, ok, by)

\* createOrUpdatePage while the reads succeed
createOrUpdatePage(w, title, content, parentId, ok, by) ==
  createOrUpdatePageReading(w, title, content, parentId, AllReads, ok, by)

\* The loop of findOrCreateParentPage over the segments from position index.
\* failAt is the position, among the write requests still to come, of the one
\* that throws (0: none).
\* lookups are the prefixes (pathSoFar, as segments) for which
\* findPageByTitleAndParent was called, in order.
RECURSIVE WalkSegmentsReading(_, _, _, _, _, _, _, _)
WalkSegmentsReading(w, segments, index, currentParentId, reads, failAt, calls, lookups) ==
  IF index > Len(segments)
  THEN [ok |-> TRUE, wiki |-> w, id |-> currentParentId, calls |-> calls,
        lookups |-> lookups]
  ELSE LET title == formatCategoryTitle(segments[index])
           page == findPageByTitleAndParentCaught(w, title, currentParentId,
                                                  reads)
           looked == Append(lookups, SubSeq(segments, 1, index))
       IN IF page # NoPage
          THEN WalkSegmentsReading(w, segments, index + 1, page, reads, failAt,
                                   calls, looked)
          ELSE LET r == createOrUpdatePageReading(w, title, "placeholder",
                                                  currentParentId, reads,
                                                  failAt # 1, "container")
               IN IF r.ok
                  THEN WalkSegmentsReading(r.wiki, segments, index + 1, r.id,
                                           reads,
                                           IF failAt > 0 THEN failAt - 1 ELSE 0,
                                           calls \o r.calls, looked)
                  ELSE [ok |-> FALSE, wiki |-> r.wiki, id |-> NoPage,
                        calls |-> calls \o r.calls, lookups |-> looked]

\* the loop while the reads succeed
WalkSegments(w, segments, index, currentParentId, failAt, calls, lookups) ==
  WalkSegmentsReading(w, segments, index, currentParentId, AllReads, failAt,
                      calls, lookups)

findOrCreateParentPageReading(w, categoryPath, rootParentId, reads, failAt) ==
  IF categoryPath = NoString
  THEN [ok |-> TRUE, wiki |-> w, id |-> rootParentId, calls |-> <<>>,
        lookups |-> <<>>]
  ELSE WalkSegmentsReading(w, Segments(categoryPath), 1, rootParentId, reads,
                           failAt, <<>>, <<>>)

findOrCreateParentPage(w, categoryPath, rootParentId, failAt) ==
  IF categoryPath = NoString
  THEN [ok |-> TRUE, wiki |-> w, id |-> rootParentId, calls |-> <<>>,
        lookups |-> <<>>]
  ELSE WalkSegments(w, Segments(categoryPath), 1, rootParentId, failAt, <<>>,
                    <<>>)

\* getRootPage: the page titled config.rootPageTitle, null when not configured
getRootPage(w, rootPageTitle) ==
  IF rootPageTitle = NoString THEN NoPage ELSE findPageByTitle(w, rootPageTitle)

\* ------------------------------------------------------------ StateManager
\* pages: path -> record or None. A record holds confluenceId, title, category,
\* lastModified, parentId and version (0: no version recorded).

\* mutant: the record is replaced as given
setPageStateReplace(pgs, path, rec) == [pgs EXCEPT ![path] = rec]

\* upsert of the record of a path; the recorded version never decreases
setPageState(pgs, path, rec) ==
  [pgs EXCEPT ![path] =
     [rec EXCEPT !.version =
        IF pgs[path] = None THEN rec.version
        ELSE Max(rec.version, pgs[path].version)]]

\* true if the path has no record or the fingerprint differs from the recorded
needsSync(pgs, path, lastModified) ==
  \/ pgs[path] = None
  \/ pgs[path].lastModified # lastModified

\* the recorded paths that are not among the existing files are removed
cleanupOrphanedPages(pgs, existingFiles) ==
  [p \in Paths |-> IF p \in existingFiles THEN pgs[p] ELSE None]

\* ------------------------------------------------------------ state
VARIABLES
  wiki,          \* the Confluence space: sequence of pages
  files,         \* local Markdown files: path -> [exists, mtime]
  imageFiles,    \* path -> files were written under images/ beside the file
  ledger,        \* the persisted sync state: path -> record or None
  now,           \* wall clock
  rootPageTitle, \* config.rootPageTitle
  pc,            \* position of the running command: idle, hierarchy, docs, reverse
  cmd,           \* the command running or run last: none, file, docs, reverse
  dryRun,        \* its dryRun argument
  pages,         \* stateManager's pages in memory
  documents,     \* syncDocs: the scanned documents; syncReverse: allPages
  parentId,      \* id of the root page, or null
  categories,    \* categories whose parent page is still to be resolved
  hierarchyMap,  \* category -> id of its parent page
  index,         \* position in documents
  stats,         \* the run's counts
  ret,           \* what the last finished command returned
  calls,         \* write requests issued by the command, in order
  dlog,          \* what the command did with each document, in order
  ledgerWrites,  \* number of times the command wrote the persisted state
  prev,          \* what the command run just before this one pushed
  runs,          \* number of commands started
  events,        \* number of disturbances so far
  transform,     \* the last call of the reverse transform: input and output
  lookups        \* category-path prefixes the command looked up, in order

vars == <<wiki, files, imageFiles, ledger, now, rootPageTitle, pc, cmd, dryRun,
          pages, documents, parentId, categories, hierarchyMap, index, stats,
          ret, calls, dlog, ledgerWrites, prev, runs, events, transform,
          lookups>>

envVars == <<wiki, files, imageFiles, ledger, now>>

NoRet == [status |-> "none"]
NoPrev ==
  [pushed |-> {}, clean |-> FALSE, pulled |-> {}, before |-> {}, cut |-> {}]
NoTransform == [op |-> "none"]

Init ==
  /\ wiki = << [title |-> RootTitle, parent |-> NoPage, version |-> 1,
                body |-> "home", attachments |-> FALSE] >>
  /\ \E P \in Projects :
       /\ files = [p \in Paths |-> [exists |-> p \in P.files, mtime |-> 0]]
       /\ rootPageTitle = P.rootPageTitle
  /\ imageFiles = [p \in Paths |-> FALSE]
  /\ ledger = [p \in Paths |-> None]
  /\ now = 0
  /\ pc = "idle" /\ cmd = "none" /\ dryRun = FALSE
  /\ pages = [p \in Paths |-> None]
  /\ documents = <<>> /\ parentId = NoPage /\ categories = <<>>
  /\ hierarchyMap = <<>> /\ index = 1 /\ stats = ZeroStats
  /\ ret = NoRet /\ calls = <<>> /\ dlog = <<>> /\ ledgerWrites = 0
  /\ prev = NoPrev
  /\ runs = 0 /\ events = 0
  /\ transform = NoTransform
  /\ lookups = <<>>

\* a command may start while the budget of runs lasts; as long as nothing has
\* disturbed the commands, QuietRuns more of them may start
MoreRuns ==
  \/ runs < MaxRuns
  \/ events = 0 /\ runs < MaxRuns + QuietRuns

\* a request may throw while the budget of disturbances lasts
MayThrow(choices, none) == IF events < MaxEvents THEN choices ELSE {none}
Thrown(ok) == events' = events + (IF ok THEN 0 ELSE 1)

\* the paths of the documents that the command pushed
PushedPaths ==
  {dlog[i].path : i \in {j \in DOMAIN dlog :
                           dlog[j].outcome \in {"created", "updated"}}}

\* At the start of a command: the paths the command that has just returned
\* pushed, whether it was a syncDocs in which no document failed, the paths
\* it rewrote if it was a reverse sync, the paths the reverse sync before
\* it rewrote if it was a push, and the paths it had pushed when it was a
\* syncDocs that the user interrupted.
Previous ==
  IF pc = "idle" /\ cmd \in {"docs", "file"} /\ ~dryRun /\ ret.status = "ok"
  THEN [pushed |-> PushedPaths,
        clean |-> cmd = "docs"
                  /\ \A i \in DOMAIN dlog : dlog[i].outcome # "failed",
        pulled |-> {},
        before |-> IF cmd = "docs" THEN prev.pulled ELSE {},
        cut |-> {}]
  ELSE IF pc = "idle" /\ cmd = "reverse" /\ ~dryRun /\ ret.status = "ok"
  THEN [pushed |-> {}, clean |-> FALSE,
        pulled |-> {dlog[i].path : i \in
                      {j \in DOMAIN dlog : dlog[j].outcome = "updated"}},
        before |-> {}, cut |-> {}]
  ELSE IF /\ pc = "idle" /\ cmd = "docs" /\ ~dryRun
          /\ ret.status = "interrupted"
  THEN [pushed |-> {}, clean |-> FALSE, pulled |-> {}, before |-> {},
        cut |-> PushedPaths]
  ELSE NoPrev

\* scanner.scanDocs: the existing files in directory order, with their mtime
scanDocs(fs) ==
  LET found == SeqOfSet(PathOrder, {p \in Paths : fs[p].exists})
  IN [i \in DOMAIN found |->
        [path |-> found[i], lastModified |-> fs[found[i]].mtime]]

HierarchyGet(hmap, category) ==
  IF category \in DOMAIN hmap THEN hmap[category] ELSE NoPage

HierarchySet(hmap, category, id) ==
  [c \in DOMAIN hmap \cup {category} |-> IF c = category THEN id ELSE hmap[c]]

\* mutant: every document goes under the root page
DocumentParentIdRoot(category, hmap, rootId) == rootId

\* document.category ? hierarchyMap.get(document.category) : parentId
DocumentParentId(category, hmap, rootId) ==
  IF category # NoString THEN HierarchyGet(hmap, category) ELSE rootId

\* mutant: the second update repeats the version of the first write
PatchVersionRepeated(result) == IF result.version = 0 THEN 1 ELSE result.version

\* version number sent by the update that follows the media step
PatchVersion(result) == (IF result.version = 0 THEN 1 ELSE result.version) + 1

\* ------------------------------------------------------------ syncDocs
\* steps 1-7: load state, scan, connect, find the root page
DocsStart(dry) ==
  /\ pc = "idle" /\ MoreRuns
  /\ runs' = runs + 1 /\ prev' = Previous
  /\ cmd' = "docs" /\ dryRun' = dry
  /\ pages' = ledger
  /\ documents' = scanDocs(files)
  /\ calls' = <<>> /\ dlog' = <<>> /\ ledgerWrites' = 0
  /\ index' = 1 /\ stats' = ZeroStats /\ hierarchyMap' = <<>>
  /\ IF documents' = <<>>
     THEN /\ ret' = [status |-> "ok", success |-> TRUE,
                     stats |-> [processed |-> 0, created |-> 0, updated |-> 0,
                                skipped |-> 0]]
          /\ pc' = "idle" /\ parentId' = NoPage /\ categories' = <<>>
     ELSE /\ ret' = NoRet
          /\ parentId' = getRootPage(wiki, rootPageTitle)
          /\ categories' =
               LET cs == Distinct([i \in DOMAIN documents' |->
                                     Docs[documents'[i].path].category])
               IN SelectSeq(cs, LAMBDA c : c # NoString)
          /\ pc' = IF categories' = <<>> THEN "docs" ELSE "hierarchy"
  /\ lookups' = <<>>
  /\ UNCHANGED transform
  /\ UNCHANGED <<envVars, rootPageTitle, events>>

\* step 8, one category: find or create its parent page and memoize it; a
\* request that throws ends the command
BuildHierarchy ==
  /\ pc = "hierarchy" /\ categories # <<>>
  /\ \E failAt \in MayThrow(0 .. Len(Segments(Head(categories))), 0) :
       LET category == Head(categories)
           r == IF category \in DOMAIN hierarchyMap
                THEN [ok |-> TRUE, wiki |-> wiki,
                      id |-> hierarchyMap[category], calls |-> <<>>,
                      lookups |-> <<>>]
                ELSE findOrCreateParentPage(wiki, category, parentId, failAt)
       IN /\ wiki' = r.wiki
          /\ calls' = calls \o r.calls
          /\ lookups' = lookups \o r.lookups
          /\ Thrown(r.ok)
          /\ IF r.ok
             THEN /\ hierarchyMap' = HierarchySet(hierarchyMap, category, r.id)
                  /\ categories' = Tail(categories)
                  /\ pc' = IF categories' = <<>> THEN "docs" ELSE "hierarchy"
                  /\ ret' = ret
             ELSE /\ ret' = [status |-> "threw"]
                  /\ pc' = "idle"
                  /\ UNCHANGED <<hierarchyMap, categories>>
  /\ UNCHANGED transform
  /\ UNCHANGED <<files, imageFiles, ledger, now, rootPageTitle, cmd, dryRun,
                 pages, documents, parentId, index, stats, dlog, ledgerWrites,
                 prev, runs>>

\* where the push of one document can throw
Failures == {"none", "parse", "push", "images", "patch"}

\* mutant: a new page is counted as created but not as processed
CountPushedCreatedOnly(st, isNewPage) ==
  IF isNewPage
  THEN [st EXCEPT !.created = @ + 1]
  ELSE [st EXCEPT !.updated = @ + 1, !.processed = @ + 1]

\* the counts after a document was pushed
CountPushed(st, isNewPage) ==
  IF isNewPage
  THEN [st EXCEPT !.created = @ + 1, !.processed = @ + 1]
  ELSE [st EXCEPT !.updated = @ + 1, !.processed = @ + 1]

\* mutant: the failure is swallowed without being counted
CatchDocumentUncounted(st) == st

\* the catch at the document boundary
CatchDocument(st) == [st EXCEPT !.failed = @ + 1]

\* mutant: the record of a document that failed is dropped
DocumentThrewDropped(w1, pgs, cs, path) ==
  [ok |-> FALSE, wiki |-> w1, pages |-> [pgs EXCEPT ![path] = None],
   calls |-> cs, isNewPage |-> FALSE]

\* a step of the document threw: control goes to the catch, past setPageState
DocumentThrew(w1, pgs, cs, path) ==
  [ok |-> FALSE, wiki |-> w1, pages |-> pgs, calls |-> cs, isNewPage |-> FALSE]

\* mutant: the media step runs first and the page is written once, after it
PushDocumentMediaFirst(w, pgs, document, documentParentId, fail, changed) ==
  LET doc == Docs[document.path]
      result == createOrUpdatePage(w, doc.title,
                                   IF doc.hasImages /\ changed THEN "media"
                                   ELSE "doc",
                                   documentParentId,
                                   fail \notin {"push", "patch"}, document.path)
  IN IF fail = "parse" \/ (doc.hasImages /\ fail = "images")
     THEN DocumentThrew(w, pgs, <<>>, document.path)
     ELSE IF ~result.ok
     THEN DocumentThrew(result.wiki, pgs, result.calls, document.path)
     ELSE [ok |-> TRUE, wiki |-> result.wiki, calls |-> result.calls,
           isNewPage |-> (result.version = 1),
           pages |-> setPageState(pgs, document.path,
                       [confluenceId |-> result.id, title |-> doc.title,
                        category |-> doc.category,
                        lastModified |-> document.lastModified,
                        parentId |-> documentParentId, version |-> 0])]

\* lines 295-358: transform, create or update, media step and second update,
\* record. Returns [ok, wiki, pages, calls, isNewPage]; ok is FALSE when a step
\* threw. changed: the media step changed the content.
PushDocument(w, pgs, document, documentParentId, fail, changed) ==
  LET doc == Docs[document.path]
      result == createOrUpdatePage(w, doc.title, "doc", documentParentId,
                                   fail # "push", document.path)
      thrown(w1, cs) == DocumentThrew(w1, pgs, cs, document.path)
      done(w1, cs) ==
        [ok |-> TRUE, wiki |-> w1, calls |-> cs,
         isNewPage |-> (result.version = 1),
         pages |-> setPageState(pgs, document.path,
                     [confluenceId |-> result.id, title |-> doc.title,
                      category |-> doc.category,
                      lastModified |-> document.lastModified,
                      parentId |-> documentParentId, version |-> 0])]
  IN IF fail = "parse" THEN thrown(w, <<>>)
     ELSE IF ~result.ok THEN thrown(result.wiki, result.calls)
     ELSE IF ~doc.hasImages THEN done(result.wiki, result.calls)
     ELSE IF fail = "images" THEN thrown(result.wiki, result.calls)
     ELSE IF ~changed THEN done(result.wiki, result.calls)
     ELSE LET uploaded == [result.wiki EXCEPT ![result.id].attachments = TRUE]
              patch == updatePage(uploaded, result.id, result.title, "media",
                                  PatchVersion(result), fail # "patch",
                                  document.path)
          IN IF patch.ok
             THEN done(patch.wiki, result.calls \o patch.calls)
             ELSE thrown(patch.wiki, result.calls \o patch.calls)

\* step 9, one document
ProcessDocument ==
  /\ pc = "docs" /\ index <= Len(documents)
  /\ index' = index + 1
  /\ LET document == documents[index]
         doc == Docs[document.path]
         documentParentId == DocumentParentId(doc.category, hierarchyMap,
                                              parentId)
     IN IF ~dryRun /\ ~needsSync(pages, document.path, document.lastModified)
        THEN /\ stats' = [stats EXCEPT !.skipped = @ + 1]
             /\ dlog' = Append(dlog, [path |-> document.path,
                                      outcome |-> "skipped",
                                      parentId |-> NoPage])
             /\ UNCHANGED <<wiki, pages, calls, events>>
        ELSE IF dryRun
        THEN /\ stats' = [stats EXCEPT !.processed = @ + 1]
             /\ dlog' = Append(dlog, [path |-> document.path,
                                      outcome |-> "preview",
                                      parentId |-> documentParentId])
             /\ UNCHANGED <<wiki, pages, calls, events>>
        ELSE \E fail \in MayThrow(Failures, "none"),
                changed \in {doc.hasImages, FALSE} :
               LET r == PushDocument(wiki, pages, document, documentParentId,
                                     fail, changed)
               IN /\ wiki' = r.wiki
                  /\ Thrown(r.ok)
                  /\ pages' = r.pages
                  /\ calls' = calls \o r.calls
                  /\ IF r.ok
                     THEN /\ stats' = CountPushed(stats, r.isNewPage)
                          /\ dlog' = Append(dlog,
                               [path |-> document.path,
                                outcome |-> IF r.isNewPage THEN "created"
                                            ELSE "updated",
                                parentId |-> documentParentId])
                     ELSE /\ stats' = CatchDocument(stats)
                          /\ dlog' = Append(dlog,
                               [path |-> document.path, outcome |-> "failed",
                                parentId |-> documentParentId,
                                stage |-> fail])
  /\ UNCHANGED <<transform, lookups>>
  /\ UNCHANGED <<files, imageFiles, ledger, now, rootPageTitle, pc, cmd,
                 dryRun, documents, parentId, categories, hierarchyMap, ret,
                 ledgerWrites, prev, runs>>

\* steps 10-11: save the state, remove the orphaned records, return the counts
DocsFinish ==
  /\ pc = "docs" /\ index > Len(documents)
  /\ IF dryRun
     THEN UNCHANGED <<ledger, pages, ledgerWrites>>
     ELSE /\ pages' = cleanupOrphanedPages(pages,
                        {documents[i].path : i \in DOMAIN documents})
          /\ ledger' = pages'
          /\ ledgerWrites' = ledgerWrites + 1
  /\ ret' = [status |-> "ok", success |-> TRUE, stats |-> stats]
  /\ pc' = "idle"
  /\ UNCHANGED <<transform, lookups>>
  /\ UNCHANGED <<wiki, files, imageFiles, now, rootPageTitle, cmd, dryRun,
                 documents, parentId, categories, hierarchyMap, index, stats,
                 calls, dlog, prev, runs, events>>

\* ------------------------------------------------------------ syncFile
\* confluenceConfig.baseUrl and confluenceConfig.spaceKey
BaseUrl == "https://wiki.example"
SpaceKey == "DOC"

\* the URL syncFile prints and returns for the page it wrote
PageUrl(pageId) == <<BaseUrl, "/pages/viewpage.action?pageId=", pageId>>

\* syncFile(filePath, dryRun) for an existing file: the whole command
SyncFile(path, dry) ==
  /\ pc = "idle" /\ MoreRuns /\ files[path].exists
  /\ runs' = runs + 1 /\ prev' = Previous
  /\ cmd' = "file" /\ dryRun' = dry
  /\ documents' = <<[path |-> path, lastModified |-> files[path].mtime]>>
  /\ index' = 1 /\ stats' = ZeroStats
  /\ hierarchyMap' = <<>> /\ categories' = <<>>
  /\ parentId' = getRootPage(wiki, rootPageTitle)
  /\ IF dry
     THEN /\ ret' = [status |-> "ok", success |-> TRUE, action |-> "preview"]
          /\ pages' = ledger
          /\ calls' = <<>> /\ dlog' = <<[path |-> path, outcome |-> "preview"]>>
          /\ ledgerWrites' = 0
          /\ UNCHANGED <<wiki, ledger, now, events>>
     ELSE \E fail \in MayThrow(Failures \ {"parse"}, "none"),
             changed \in {Docs[path].hasImages, FALSE} :
            LET doc == Docs[path]
                result == createOrUpdatePage(wiki, doc.title, "doc", parentId',
                                             fail # "push", path)
                uploaded == IF result.ok /\ changed
                            THEN [result.wiki EXCEPT
                                    ![result.id].attachments = TRUE]
                            ELSE result.wiki
                patch == IF result.ok /\ changed /\ fail # "images"
                         THEN updatePage(uploaded, result.id, result.title,
                                         "media", PatchVersion(result),
                                         fail # "patch", path)
                         ELSE [ok |-> result.ok /\ fail # "images",
                               wiki |-> uploaded, calls |-> <<>>]
            IN /\ wiki' = patch.wiki
               /\ Thrown(patch.ok)
               /\ calls' = result.calls \o patch.calls
               /\ IF patch.ok
                  THEN /\ pages' = setPageState(ledger, path,
                            [confluenceId |-> result.id, title |-> result.title,
                             category |-> NoString, lastModified |-> now + 1,
                             parentId |-> parentId',
                             version |-> VersionNumber(result)])
                       /\ ledger' = pages'
                       /\ ledgerWrites' = 1
                       /\ now' = now + 1
                       /\ ret' = [status |-> "ok", success |-> TRUE,
                                  action |-> IF result.version = 1
                                             THEN "created" ELSE "updated",
                                  pageId |-> result.id,
                                  title |-> result.title,
                                  url |-> PageUrl(result.id)]
                       /\ dlog' = <<[path |-> path,
                                     outcome |-> ret'.action]>>
                  ELSE /\ pages' = ledger
                       /\ ret' = [status |-> "threw"]
                       /\ dlog' = <<[path |-> path, outcome |-> "failed",
                                     stage |-> fail]>>
                       /\ ledgerWrites' = 0
                       /\ UNCHANGED <<ledger, now>>
  /\ lookups' = <<>>
  /\ UNCHANGED transform
  /\ UNCHANGED <<files, imageFiles, rootPageTitle, pc>>

\* ------------------------------------------------------------ syncReverse
\* pageInfo.version || 1
LastSyncVersion(pageInfo) == IF pageInfo.version = 0 THEN 1 ELSE pageInfo.version

\* mutant: a page at the recorded version counts as updated
UpdatedInConfluenceOrSame(currentVersion, lastSyncVersion) ==
  ~(currentVersion < lastSyncVersion)

\* the page was updated in Confluence after the last sync
UpdatedInConfluence(currentVersion, lastSyncVersion) ==
  ~(currentVersion <= lastSyncVersion)

\* steps 1-5: load the state, connect, list the tracked pages
ReverseStart(dry) ==
  /\ pc = "idle" /\ MoreRuns
  /\ runs' = runs + 1 /\ prev' = Previous
  /\ cmd' = "reverse" /\ dryRun' = dry
  /\ pages' = ledger
  /\ calls' = <<>> /\ dlog' = <<>> /\ ledgerWrites' = 0
  /\ index' = 1 /\ hierarchyMap' = <<>> /\ categories' = <<>>
  /\ parentId' = NoPage
  /\ stats' = ZeroStats
  /\ LET allPages == SeqOfSet(PathOrder, {p \in Paths : ledger[p] # None})
     IN /\ documents' = [i \in DOMAIN allPages |->
                           [path |-> allPages[i], lastModified |-> 0]]
        /\ IF allPages = <<>>
           THEN /\ ret' = [status |-> "ok", success |-> TRUE,
                           stats |-> [processed |-> 0, updated |-> 0,
                                      skipped |-> 0]]
                /\ pc' = "idle"
           ELSE /\ ret' = NoRet
                /\ pc' = "reverse"
  /\ lookups' = <<>>
  /\ UNCHANGED transform
  /\ UNCHANGED <<envVars, rootPageTitle, events>>

\* where the handling of one tracked page can throw
ReverseFailures == {"none", "fetch", "convert"}

\* mutant: the existence of the local file is not tested
ReverseOutcomeAnyFile(pageInfo, w, fs, dry, fail) ==
  IF pageInfo.confluenceId = NoPage THEN "ignored"
  ELSE IF fail = "fetch" THEN "error"
  ELSE IF ~UpdatedInConfluence(VersionNumber(w[pageInfo.confluenceId]),
                               LastSyncVersion(pageInfo))
  THEN "unchanged"
  ELSE IF fail = "convert" THEN "failed"
  ELSE IF dry THEN "would" ELSE "updated"

\* step 6, one tracked page: what the loop body does with it
ReverseOutcome(pageInfo, w, fs, dry, fail) ==
  IF pageInfo.confluenceId = NoPage THEN "ignored"
  ELSE IF fail = "fetch" THEN "error"
  ELSE IF ~UpdatedInConfluence(VersionNumber(w[pageInfo.confluenceId]),
                               LastSyncVersion(pageInfo))
  THEN "unchanged"
  ELSE IF ~fs.exists THEN "nofile"
  ELSE IF fail = "convert" THEN "failed"
  ELSE IF dry THEN "would" ELSE "updated"

\* mutant: a page whose handling threw is not counted
ReverseStatsErrorDropped(st, outcome) ==
  CASE outcome \in {"ignored", "error", "failed"} -> st
    [] outcome = "would" ->
         [st EXCEPT !.processed = @ + 1, !.skipped = @ + 1]
    [] outcome = "updated" ->
         [st EXCEPT !.processed = @ + 1, !.updated = @ + 1]
    [] OTHER -> [st EXCEPT !.skipped = @ + 1]

\* the counts after one tracked page
ReverseStats(st, outcome) ==
  CASE outcome = "ignored" -> st
    [] outcome = "would" ->
         [st EXCEPT !.processed = @ + 1, !.skipped = @ + 1]
    [] outcome = "updated" ->
         [st EXCEPT !.processed = @ + 1, !.updated = @ + 1]
    [] OTHER -> [st EXCEPT !.skipped = @ + 1]

\* step 6, one tracked page. download: the attachment download succeeded.
\* stamp: the reading of the clock taken after the file was written.
ReversePage ==
  /\ pc = "reverse" /\ index <= Len(documents)
  /\ index' = index + 1
  /\ LET filePath == documents[index].path
         pageInfo == pages[filePath]
         confluenceId == pageInfo.confluenceId
     IN \E fail \in MayThrow(ReverseFailures, "none"),
           download \in {confluenceId # NoPage /\ wiki[confluenceId].attachments,
                         FALSE},
           stamp \in {now + 1, now + 2} :
          LET outcome == ReverseOutcome(pageInfo, wiki, files[filePath],
                                        dryRun, fail)
              currentVersion == IF outcome \in {"ignored", "error"} THEN 0
                                ELSE VersionNumber(wiki[confluenceId])
          IN /\ Thrown(outcome \notin {"error", "failed"})
             /\ dlog' = Append(dlog,
                  [path |-> filePath, outcome |-> outcome,
                   current |-> currentVersion,
                   last |-> LastSyncVersion(pageInfo),
                   saved |-> download /\ outcome \in {"failed", "would",
                                                       "updated"}])
             \* convertToMarkdown saves the images before the text is converted
             /\ imageFiles' =
                  IF outcome \in {"failed", "would", "updated"}
                  THEN [imageFiles EXCEPT ![filePath] = @ \/ download]
                  ELSE imageFiles
             /\ stats' = ReverseStats(stats, outcome)
             /\ IF outcome = "updated"
                THEN /\ files' = [files EXCEPT ![filePath] =
                                     [exists |-> TRUE, mtime |-> now + 1]]
                     /\ now' = stamp
                     /\ pages' = setPageState(pages, filePath,
                          [pageInfo EXCEPT !.version = currentVersion,
                                           !.lastModified = stamp])
                ELSE UNCHANGED <<files, now, pages>>
  /\ UNCHANGED <<transform, lookups>>
  /\ UNCHANGED <<wiki, ledger, rootPageTitle, pc, cmd, dryRun, documents,
                 parentId, categories, hierarchyMap, ret, calls, ledgerWrites,
                 prev, runs>>

\* save the state and return the counts
ReverseFinish ==
  /\ pc = "reverse" /\ index > Len(documents)
  /\ ledger' = pages
  /\ ledgerWrites' = ledgerWrites + 1
  /\ ret' = [status |-> "ok", success |-> TRUE,
             stats |-> [processed |-> stats.processed,
                        updated |-> stats.updated, skipped |-> stats.skipped]]
  /\ pc' = "idle"
  /\ UNCHANGED <<transform, lookups>>
  /\ UNCHANGED <<wiki, files, imageFiles, now, rootPageTitle, cmd, dryRun,
                 pages, documents, parentId, categories, hierarchyMap, index,
                 stats, calls, dlog, prev, runs, events>>

\* ------------------------------------------------------------ interruption
\* mutant: a save cut short may also leave a file that loads as an empty state
InterruptedSaveTorn(stored, pgs) ==
  {stored, pgs, [p \in Paths |-> None]}

\* what the persisted state can be when the process is stopped during
\* saveState: the write is all or nothing
InterruptedSave(stored, pgs) == {stored, pgs}

\* the command has reached its saveState call
AtSaveState ==
  /\ index > Len(documents)
  /\ \/ pc = "docs" /\ ~dryRun
     \/ pc = "reverse"

\* the user stops the process while a command runs
Interrupt ==
  /\ pc # "idle" /\ events < MaxEvents
  /\ events' = events + 1
  /\ pc' = "idle"
  /\ ret' = [status |-> "interrupted"]
  /\ ledger' \in IF AtSaveState THEN InterruptedSave(ledger, pages)
                 ELSE {ledger}
  /\ UNCHANGED <<transform, lookups>>
  /\ UNCHANGED <<wiki, files, imageFiles, now, rootPageTitle, cmd, dryRun,
                 pages, documents, parentId, categories, hierarchyMap, index,
                 stats, calls, dlog, ledgerWrites, prev, runs>>

\* ------------------------------------------------------------ environment
\* Between two commands no process runs: the memory of the last one is gone.
\* A disturbance that no later command can observe is not explored.
ProcessGone ==
  /\ cmd' = "none" /\ dryRun' = FALSE
  /\ pages' = [p \in Paths |-> None]
  /\ documents' = <<>> /\ parentId' = NoPage /\ categories' = <<>>
  /\ hierarchyMap' = <<>> /\ index' = 1 /\ stats' = ZeroStats
  /\ ret' = NoRet /\ calls' = <<>> /\ dlog' = <<>> /\ ledgerWrites' = 0
  /\ prev' = NoPrev /\ lookups' = <<>>
  /\ UNCHANGED <<pc, runs>>

\* the user edits a document between two commands
LocalEdit(path) ==
  /\ pc = "idle" /\ events < MaxEvents /\ runs < MaxRuns /\ files[path].exists
  /\ files' = [files EXCEPT ![path].mtime = now + 1]
  /\ now' = now + 1
  /\ events' = events + 1
  /\ ProcessGone
  /\ UNCHANGED transform
  /\ UNCHANGED <<wiki, imageFiles, ledger, rootPageTitle>>

\* the user deletes a document between two commands
LocalDelete(path) ==
  /\ pc = "idle" /\ events < MaxEvents /\ runs < MaxRuns /\ files[path].exists
  /\ files' = [files EXCEPT ![path].exists = FALSE]
  /\ events' = events + 1
  /\ ProcessGone
  /\ UNCHANGED transform
  /\ UNCHANGED <<wiki, imageFiles, ledger, now, rootPageTitle>>

\* somebody edits a tracked page on the wiki between two commands
WikiEdit(id) ==
  /\ pc = "idle" /\ events < MaxEvents /\ runs < MaxRuns
  /\ \E p \in Paths : ledger[p] # None /\ ledger[p].confluenceId = id
  /\ wiki' = [wiki EXCEPT ![id].version = @ + 1, ![id].body = "edited"]
  /\ events' = events + 1
  /\ ProcessGone
  /\ UNCHANGED transform
  /\ UNCHANGED <<files, imageFiles, ledger, now, rootPageTitle>>

Next ==
  \/ \E dry \in BOOLEAN : DocsStart(dry)
  \/ BuildHierarchy
  \/ ProcessDocument
  \/ DocsFinish
  \/ \E path \in Paths, dry \in BOOLEAN : SyncFile(path, dry)
  \/ \E dry \in BOOLEAN : ReverseStart(dry)
  \/ ReversePage
  \/ ReverseFinish
  \/ Interrupt
  \/ \E path \in Paths : LocalEdit(path)
  \/ \E path \in Paths : LocalDelete(path)
  \/ \E id \in DOMAIN wiki : WikiEdit(id)

Spec == Init /\ [][Next]_vars

\* ------------------------------------------------------------ frontmatter
\* A text is a sequence of tokens. A frontmatter is a sequence of lines
\* [key, raw]: raw is the text that follows "key:" in the file.
MaxEntries == 2

FrontmatterKeys == <<"title", "tags", "draft">>

RawValues ==
  { <<"My", " ", "Doc">>,
    <<"\"", "My", " ", "Doc", "\"">>,
    <<"'", "My", " ", "Doc", "'">>,
    <<"'", "a", "\"", "b", "'">>,
    <<"3">>,
    <<"true">>,
    <<"false">>,
    <<"[", "a", ",", " ", "b", "]">>,
    <<"[", "\"", "a", "\"", ",", "\"", "b", "\"", "]">>,
    <<"\n", "-", " ", "a", "\n", "-", " ", "b">>,
    <<"\n", " ", "k", ":", " ", "3">> }

RECURSIVE Join(_, _)
Join(texts, separator) ==
  IF texts = <<>> THEN <<>>
  ELSE IF Len(texts) = 1 THEN texts[1]
  ELSE texts[1] \o separator \o Join(Tail(texts), separator)

\* gray-matter (js-yaml): the value a raw text stands for
RECURSIVE YamlValue(_)
YamlValue(raw) ==
  LET inner == SubSeq(raw, 2, Len(raw) - 1)
      item(t) == [type |-> "string", text |-> <<t>>]
  IN IF raw[1] \in {"\"", "'"} THEN [type |-> "string", text |-> inner]
     ELSE IF raw \in {<<"true">>, <<"false">>}
     THEN [type |-> "boolean", text |-> raw]
     ELSE IF raw \in {<<"1">>, <<"3">>} THEN [type |-> "number", text |-> raw]
     ELSE IF raw[1] = "["
     THEN LET ts == SelectSeq(inner, LAMBDA t : t \notin {",", " ", "\""})
          IN [type |-> "object", list |-> TRUE,
              items |-> [i \in DOMAIN ts |-> item(ts[i])]]
     ELSE IF raw[1] = "\n" /\ raw[2] = "-"
     THEN LET ts == SelectSeq(raw, LAMBDA t : t \notin {"\n", "-", " "})
          IN [type |-> "object", list |-> TRUE,
              items |-> [i \in DOMAIN ts |-> item(ts[i])]]
     ELSE IF raw[1] = "\n"
     THEN [type |-> "object", list |-> FALSE, key |-> raw[3],
           value |-> YamlValue(SubSeq(raw, 6, Len(raw)))]
     ELSE [type |-> "string", text |-> raw]

\* the escapes of JSON.stringify inside a string
JsonEscape(text) ==
  Join([i \in DOMAIN text |->
          IF text[i] = "\"" THEN <<"\\", "\"">> ELSE <<text[i]>>], <<>>)

RECURSIVE JsonStringify(_)
JsonStringify(value) ==
  IF value.type = "string"
  THEN <<"\"">> \o JsonEscape(value.text) \o <<"\"">>
  ELSE IF value.type \in {"number", "boolean"} THEN value.text
  ELSE IF value.list
  THEN <<"[">> \o Join([i \in DOMAIN value.items |->
                          JsonStringify(value.items[i])], <<",">>) \o <<"]">>
  ELSE <<"{", "\"", value.key, "\"", ":">> \o JsonStringify(value.value)
       \o <<"}">>

\* gray-matter: data of the original file, in the order of the file
grayMatter(lines) ==
  [i \in DOMAIN lines |->
     [key |-> lines[i].key, value |-> YamlValue(lines[i].raw)]]

\* syncReverse: the frontmatter block written in front of the new content
buildFrontmatter(frontmatter) ==
  [i \in DOMAIN frontmatter |->
     [key |-> frontmatter[i].key,
      raw |-> IF frontmatter[i].value.type = "string"
              THEN <<"\"">> \o frontmatter[i].value.text \o <<"\"">>
              ELSE JsonStringify(frontmatter[i].value)]]

\* the text of a frontmatter line; a value in block form starts on a new line
LineText(line) ==
  <<line.key, ":">> \o (IF line.raw[1] = "\n" THEN <<>> ELSE <<" ">>)
  \o line.raw

FrontmatterInputs ==
  UNION {[1 .. n -> RawValues] : n \in 0 .. MaxEntries}

\* the state of the commands, which a call of the transform leaves alone; each
\* call of the transform starts from nothing converted
commandVars ==
  <<wiki, files, imageFiles, ledger, now, rootPageTitle, pc, cmd, dryRun,
    pages, documents, parentId, categories, hierarchyMap, index, stats, ret,
    calls, dlog, ledgerWrites, prev, runs, events, lookups>>

RewriteFrontmatter ==
  /\ transform = NoTransform
  /\ UNCHANGED commandVars
  /\ \E raws \in FrontmatterInputs :
    LET lines == [i \in DOMAIN raws |->
                    [key |-> FrontmatterKeys[i], raw |-> raws[i]]]
        written == buildFrontmatter(grayMatter(lines))
    IN transform' =
         [op |-> "frontmatter",
          input |-> [i \in DOMAIN lines |-> LineText(lines[i])],
          data |-> grayMatter(lines),
          output |-> [i \in DOMAIN written |-> LineText(written[i])]]

\* ------------------------------------------------------------ HtmlToMarkdownParser
\* An element is a record with its nodeName. The Markdown of an element is a
\* sequence of lines.
MaxRows == 3

RECURSIVE Concat(_)
Concat(tokens) ==
  IF tokens = <<>> THEN "" ELSE tokens[1] \o Concat(Tail(tokens))

RECURSIVE JoinLine(_, _)
JoinLine(texts, separator) ==
  IF texts = <<>> THEN ""
  ELSE IF Len(texts) = 1 THEN texts[1]
  ELSE texts[1] \o separator \o JoinLine(Tail(texts), separator)

\* String.prototype.includes on texts
Includes(text, part) ==
  \E i \in 1 .. Len(text) - Len(part) + 1 :
    SubSeq(text, i, i + Len(part) - 1) = part

\* turndown's addRule puts the new rule in front of the rules added before
addRule(rules, key) == <<key>> \o rules

\* the rules in the order setupTurndownRules adds them
setupTurndownRules ==
  addRule(addRule(addRule(addRule(addRule(addRule(<<>>,
    "confluenceCodeBlock"), "confluenceAdmonitions"), "confluenceTables"),
    "confluenceImages"), "mermaidDiagrams"), "confluenceLinks")

AdmonitionClasses ==
  {"confluence-information-macro", "confluence-warning-macro",
   "confluence-note-macro"}

\* the filter of each rule
RuleFilter(key, node) ==
  CASE key = "confluenceCodeBlock" ->
         node.nodeName = "DIV" /\ "code" \in node.classList
    [] key = "confluenceAdmonitions" ->
         node.nodeName = "DIV" /\ node.classList \cap AdmonitionClasses # {}
    [] key = "confluenceTables" -> node.nodeName = "TABLE"
    [] key = "confluenceImages" -> node.nodeName = "IMG"
    [] key = "mermaidDiagrams" ->
         /\ node.nodeName = "IMG"
         /\ node.alt # <<>>
         /\ Includes(node.alt, <<"mermaid-diagram">>)
    [] key = "confluenceLinks" -> node.nodeName = "A"

\* turndown: the first rule of the array whose filter accepts the element
RECURSIVE forNode(_, _)
forNode(rules, node) ==
  IF rules = <<>> THEN "default"
  ELSE IF RuleFilter(rules[1], node) THEN rules[1]
  ELSE forNode(Tail(rules), node)

\* preprocessConfluenceHtml: macros and ac:image elements of the storage format
preprocessConfluenceHtml(node) ==
  IF node.nodeName = "ac:structured-macro"
  THEN IF node.name \in {"note", "info", "warning"}
       THEN [nodeName |-> "DIV",
             classList |-> {"confluence-" \o node.name \o "-macro"},
             title |-> node.title, body |-> node.body]
       ELSE node
  ELSE IF node.nodeName = "ac:image"
  THEN IF node.ref = "attachment" THEN node
       ELSE [nodeName |-> "IMG", alt |-> <<"Confluence Image">>,
             src |-> node.value]
  ELSE node

\* mutant: the title is appended also when it is empty
confluenceAdmonitionsAlwaysTitle(node) ==
  LET type == IF "confluence-warning-macro" \in node.classList THEN "warning"
              ELSE IF "confluence-note-macro" \in node.classList THEN "note"
              ELSE "info"
  IN << ":::" \o type \o " " \o node.title, node.body, ":::" >>

\* rule confluenceAdmonitions
confluenceAdmonitions(node) ==
  LET type == IF "confluence-warning-macro" \in node.classList THEN "warning"
              ELSE IF "confluence-note-macro" \in node.classList THEN "note"
              ELSE "info"
  IN << ":::" \o type \o (IF node.title # "" THEN " " \o node.title ELSE ""),
        node.body,
        ":::" >>

\* rule confluenceTables
confluenceTables(node) ==
  LET rows == node.rows
      text(cells) == "| " \o JoinLine([i \in DOMAIN cells |-> cells[i].text],
                                      " | ") \o " |"
      headerCells == SelectSeq(rows[1], LAMBDA c : c.name = "TH")
      header == IF headerCells # <<>>
                THEN << text(headerCells),
                        "| " \o JoinLine([i \in DOMAIN headerCells |-> "---"],
                                         " | ") \o " |" >>
                ELSE <<>>
      first == IF headerCells # <<>> THEN 2 ELSE 1
      data(i) == LET cells == SelectSeq(rows[i], LAMBDA c : c.name = "TD")
                 IN IF cells # <<>> THEN <<text(cells)>> ELSE <<>>
  IN IF rows = <<>> THEN <<>>
     ELSE header \o Join([k \in 1 .. Len(rows) - first + 1 |->
                            data(first + k - 1)], <<>>)

\* rule confluenceImages
confluenceImages(node) ==
  LET image(target) == <<"![" \o Concat(node.alt) \o "](" \o target \o ")">>
  IN IF node.src = <<>> \/ node.src[1] \notin {"http", "data:"}
     THEN image(Concat(node.src))
     ELSE IF Includes(node.src, <<"/download/attachments/">>)
     THEN image(node.src[Len(node.src)])
     ELSE image(Concat(node.src))

\* the three backquotes that open and close a code fence, written with quotes
Fence == "'''"

\* rule mermaidDiagrams
mermaidDiagrams(node) ==
  << Fence \o "mermaid",
     "// Original Mermaid diagram was here",
     "// Automatic conversion back to Mermaid code is not supported",
     Fence >>

\* an element no rule accepts: a block prints the text of its children, an
\* element of the storage format that has no text prints nothing
DefaultReplacement(node) ==
  IF node.nodeName \in {"DIV", "ac:structured-macro"}
  THEN (IF node.title # "" THEN <<node.title, "">> ELSE <<>>) \o <<node.body>>
  ELSE <<>>

turndown(node) ==
  LET key == forNode(setupTurndownRules, node)
  IN CASE key = "confluenceAdmonitions" -> confluenceAdmonitions(node)
       [] key = "confluenceTables" -> confluenceTables(node)
       [] key = "confluenceImages" -> confluenceImages(node)
       [] key = "mermaidDiagrams" -> mermaidDiagrams(node)
       [] OTHER -> DefaultReplacement(node)

\* postprocessMarkdown: a line break is put in front of the closing fence
postprocessMarkdown(lines) ==
  IF Len(lines) >= 2 /\ lines[1] = Fence \o "mermaid"
     /\ lines[Len(lines)] = Fence
  THEN SubSeq(lines, 1, Len(lines) - 1) \o <<"", Fence>>
  ELSE lines

\* the latest time of a file or of an attachment version
MaxTime == 2

\* one day, the unit of the times
Day == 1

\* What surrounds one conversion: whether the caller passed the metadata of the
\* attachment and a client, whether the metadata holds a download link, the
\* local copy and its time, the time of the attachment version, the clock, and
\* whether a download through the client and a plain download succeed.
Envs ==
  [attachments : BOOLEAN, client : BOOLEAN, link : BOOLEAN,
   exists : BOOLEAN, mtime : 0 .. MaxTime, when : 0 .. MaxTime,
   now : {MaxTime, MaxTime + 1}, apiOk : BOOLEAN, httpOk : BOOLEAN]

\* syncReverse builds the parser without a client and passes no attachments
ReverseEnv(env) == [env EXCEPT !.attachments = FALSE, !.client = FALSE]

\* filename.replace(/[^a-zA-Z0-9.-]/g, '_'); of the file names used here only
\* 'my d.png' holds such a character
SafeFilename(filename) ==
  IF filename = "my d.png" THEN "my_d.png" ELSE filename

IsAttachmentUrl(src) == Includes(src, <<"/download/attachments/">>)

Untouched(node) == [node |-> node, fetched |-> <<>>, wrote |-> FALSE]

\* downloadAndSaveAttachment: ok is FALSE where the source returns null
downloadAndSaveAttachment(filename, env) ==
  IF ~env.client
  THEN [ok |-> FALSE, fetched |-> <<>>, wrote |-> FALSE]
  ELSE IF env.exists /\ env.mtime >= env.when
  THEN [ok |-> TRUE, fetched |-> <<>>, wrote |-> FALSE]
  ELSE IF ~env.link
  THEN [ok |-> FALSE, fetched |-> <<>>, wrote |-> FALSE]
  ELSE [ok |-> env.apiOk, fetched |-> <<"client">>, wrote |-> env.apiOk]

processConfluenceAttachmentReferences(node, env) ==
  IF node.nodeName = "ac:image" /\ node.ref = "attachment"
  THEN LET filename == node.value[1]
           saved == downloadAndSaveAttachment(filename, env)
       IN IF ~env.attachments THEN Untouched(node)
          ELSE [node |-> IF saved.ok
                         THEN [nodeName |-> "IMG",
                               src |-> <<"images/", SafeFilename(filename)>>,
                               alt |-> <<filename>>]
                         ELSE node,
                fetched |-> saved.fetched, wrote |-> saved.wrote]
  ELSE IF node.nodeName = "IMG" /\ IsAttachmentUrl(node.src)
  THEN LET filename == node.src[Len(node.src)]
           saved == downloadAndSaveAttachment(filename, env)
           local == [node EXCEPT !.src = <<"images/", SafeFilename(filename)>>]
       IN IF env.attachments
          THEN [node |-> IF saved.ok THEN local ELSE node,
                fetched |-> saved.fetched, wrote |-> saved.wrote]
          ELSE IF env.client
          THEN [node |-> IF env.apiOk THEN local ELSE node,
                fetched |-> <<"client">>, wrote |-> env.apiOk]
          ELSE Untouched(node)
  ELSE Untouched(node)

processAttachmentImages(state, env) ==
  LET node == state.node
  IN IF node.nodeName = "IMG" /\ IsAttachmentUrl(node.src)
     THEN LET filename == node.src[Len(node.src)]
              local == [node EXCEPT
                          !.src = <<"images/", SafeFilename(filename)>>]
              shouldDownload ==
                ~env.exists \/ env.mtime < env.now - Day
          IN IF ~shouldDownload THEN [state EXCEPT !.node = local]
             ELSE [node |-> IF env.httpOk THEN local ELSE node,
                   fetched |-> state.fetched \o <<"axios">>,
                   wrote |-> state.wrote \/ env.httpOk]
     ELSE state

processContentImages(state, env) ==
  LET node == state.node
  IN IF /\ node.nodeName = "IMG"
        /\ node.src # <<>>
        /\ node.src[1] = "http"
        /\ ~IsAttachmentUrl(node.src)
     THEN LET filename == SafeFilename(node.src[Len(node.src)])
              uniqueFilename ==
                "external-" \o ToString(env.now) \o "-0-" \o filename
          IN [node |-> IF env.httpOk
                       THEN [node EXCEPT !.src = <<"images/", uniqueFilename>>]
                       ELSE node,
              fetched |-> state.fetched \o <<"axios">>,
              wrote |-> state.wrote \/ env.httpOk]
     ELSE state

processImagesWithAttachments(node, env) ==
  processContentImages(
    processAttachmentImages(
      processConfluenceAttachmentReferences(node, env), env), env)

convertToMarkdown(node, env) ==
  postprocessMarkdown(
    turndown(
      processImagesWithAttachments(preprocessConfluenceHtml(node), env).node))

Titles == {"", "Note Title"}
Bodies == {"Body", "Some text"}

MacroInputs ==
  {[nodeName |-> "ac:structured-macro", name |-> n, title |-> t, body |-> b] :
     n \in {"info", "note", "warning", "tip"}, t \in Titles, b \in Bodies}
  \cup
  {[nodeName |-> "DIV", classList |-> {c}, title |-> t, body |-> b] :
     c \in AdmonitionClasses, t \in Titles, b \in Bodies}

RowShapes == {<<"TH", "TH">>, <<"TD", "TD">>, <<"TH", "TD">>}

TableInputs ==
  {[nodeName |-> "TABLE",
    rows |-> [i \in DOMAIN shapes |->
                [j \in DOMAIN shapes[i] |->
                   [name |-> shapes[i][j],
                    text |-> "r" \o ToString(i) \o "c" \o ToString(j)]]]] :
     shapes \in UNION {[1 .. n -> RowShapes] : n \in 0 .. MaxRows}}

AltTexts ==
  {<<>>, <<"diagram">>, <<"mermaid">>, <<"mermaid-diagram">>,
   <<"mermaid-diagram", "-1">>, <<"my", " ", "mermaid-diagram">>}

Filenames == {"d.png", "my d.png"}

Addresses ==
  {<<"images/", "d.png">>, <<"http", "://x.org/", "d.png">>}
  \cup
  {<<"http", "://wiki", "/download/attachments/", "1", "/", f>> :
     f \in Filenames}

ImageInputs ==
  {[nodeName |-> "IMG", alt |-> a, src |-> u] :
     a \in AltTexts, u \in Addresses}
  \cup
  {[nodeName |-> "ac:image", alt |-> a, ref |-> r,
    value |-> <<"http", "://x.org/", "d.png">>] :
     a \in AltTexts, r \in {"url", "src"}}
  \cup
  {[nodeName |-> "ac:image", alt |-> a, ref |-> "attachment",
    value |-> <<f>>] :
     a \in AltTexts, f \in Filenames}

\* the conversion of an element that holds no image reads nothing of it
NoImageEnv ==
  [attachments |-> FALSE, client |-> FALSE, link |-> FALSE, exists |-> FALSE,
   mtime |-> 0, when |-> 0, now |-> MaxTime, apiOk |-> FALSE,
   httpOk |-> FALSE]

ConvertMacro ==
  /\ transform = NoTransform
  /\ UNCHANGED commandVars
  /\ \E node \in MacroInputs :
       transform' = [op |-> "macro", input |-> node,
                     output |-> convertToMarkdown(node, NoImageEnv)]

ConvertTable ==
  /\ transform = NoTransform
  /\ UNCHANGED commandVars
  /\ \E node \in TableInputs :
       transform' = [op |-> "table", input |-> node,
                     output |-> convertToMarkdown(node, NoImageEnv)]

ConvertImage ==
  /\ transform = NoTransform
  /\ UNCHANGED commandVars
  /\ \E node \in ImageInputs, env \in Envs :
       LET images == processImagesWithAttachments(
                       preprocessConfluenceHtml(node), env)
       IN transform' = [op |-> "image", input |-> node, env |-> env,
                        fetched |-> images.fetched, wrote |-> images.wrote,
                        output |-> convertToMarkdown(node, env)]

TransformNext ==
  \/ RewriteFrontmatter
  \/ ConvertMacro
  \/ ConvertTable
  \/ ConvertImage

\* the transform reads nothing of the project: one installation is enough
TransformInit == Init /\ files["p1"].exists

TransformSpec == TransformInit /\ [][TransformNext]_vars

\* ------------------------------------------------------------ failed reads
\* The client's calls on a space, with read requests that may fail: at most
\* MaxCalls calls in a row.
MaxCalls == 3

ClientTitles == {<<"A">>, <<"X">>}

ClientCategories == {<<"a">>, <<"a", "/", "x">>, <<"b", "/", "x">>}

Reads == [search : BOOLEAN, children : BOOLEAN]

\* what a call of the client leaves alone
clientFrame ==
  <<files, imageFiles, ledger, now, rootPageTitle, pc, cmd, dryRun, pages,
    documents, parentId, categories, hierarchyMap, index, stats, ret, dlog,
    ledgerWrites, prev, runs, events, lookups>>

\* the number of calls made so far
ClientCalls == IF transform.op = "client" THEN transform.calls ELSE 0

\* whether a read has failed in this or an earlier call
ReadFailed(reads) ==
  \/ ~reads.search
  \/ ~reads.children
  \/ (transform.op = "client" /\ transform.readFailed)

ClientCreateOrUpdatePage ==
  /\ transform.op \in {"none", "client"}
  /\ ClientCalls < MaxCalls
  /\ \E title \in ClientTitles, parent \in DOMAIN wiki, search \in BOOLEAN,
        ok \in BOOLEAN :
       LET reads == [search |-> search, children |-> TRUE]
           r == createOrUpdatePageReading(wiki, title, "doc", parent, reads,
                                          ok, "client")
       IN /\ wiki' = r.wiki
          /\ calls' = r.calls
          /\ transform' = [op |-> "client", call |-> "createOrUpdatePage",
                           calls |-> ClientCalls + 1,
                           readFailed |-> ReadFailed(reads)]
  /\ UNCHANGED clientFrame

ClientFindOrCreateParentPage ==
  /\ transform.op \in {"none", "client"}
  /\ ClientCalls < MaxCalls
  /\ \E category \in ClientCategories, rootParentId \in {NoPage, 1},
        reads \in Reads,
        failAt \in 0 .. 1 :
       LET r == findOrCreateParentPageReading(wiki, category, rootParentId,
                                              reads, failAt)
       IN /\ wiki' = r.wiki
          /\ calls' = r.calls
          /\ transform' = [op |-> "client", call |-> "findOrCreateParentPage",
                           calls |-> ClientCalls + 1,
                           readFailed |-> ReadFailed(reads)]
  /\ UNCHANGED clientFrame

ClientNext ==
  \/ ClientCreateOrUpdatePage
  \/ ClientFindOrCreateParentPage

ClientSpec == TransformInit /\ [][ClientNext]_vars

\* ------------------------------------------------------------ stored state
\* syncReverse over a state file it did not write in this run: the records of
\* p1 and p2 as loadState returns them, with or without a page id, at
\* version 1 or 2, the local files present or missing.
StoredVersions == 1..2

StoredRecord(path, id, version) ==
  [title |-> Docs[path].title, category |-> Docs[path].category,
   version |-> version, parentId |-> 1, lastModified |-> 0,
   confluenceId |-> id]

StoredPage(path, version) ==
  [title |-> Docs[path].title, parent |-> 1, version |-> version,
   body |-> "text", attachments |-> FALSE]

ReverseInit ==
  /\ \E v1, v2 \in StoredVersions :
       wiki = << [title |-> RootTitle, parent |-> NoPage, version |-> 1,
                  body |-> "home", attachments |-> FALSE],
                 StoredPage("p1", v1), StoredPage("p2", v2) >>
  /\ \E F \in SUBSET {"p1", "p2"} :
       files = [p \in Paths |-> [exists |-> p \in F, mtime |-> 0]]
  /\ \E id1 \in {NoPage, 2}, id2 \in {NoPage, 3}, v \in StoredVersions :
       ledger = [p \in Paths |->
                   CASE p = "p1" -> StoredRecord("p1", id1, v)
                     [] p = "p2" -> StoredRecord("p2", id2, 1)
                     [] OTHER -> None]
  /\ rootPageTitle = RootTitle
  /\ imageFiles = [p \in Paths |-> FALSE]
  /\ now = 0
  /\ pc = "idle" /\ cmd = "none" /\ dryRun = FALSE
  /\ pages = [p \in Paths |-> None]
  /\ documents = <<>> /\ parentId = NoPage /\ categories = <<>>
  /\ hierarchyMap = <<>> /\ index = 1 /\ stats = ZeroStats
  /\ ret = NoRet /\ calls = <<>> /\ dlog = <<>> /\ ledgerWrites = 0
  /\ prev = NoPrev
  /\ runs = 0 /\ events = 0
  /\ transform = NoTransform
  /\ lookups = <<>>

ReverseNext ==
  \/ \E dry \in BOOLEAN : ReverseStart(dry)
  \/ ReversePage
  \/ ReverseFinish

ReverseSpec == ReverseInit /\ [][ReverseNext]_vars

\* ------------------------------------------------------------ properties
Pushed(outcome) == outcome \in {"created", "updated"}

\* C1: in syncDocs, when a write request for a document of a category is
\* issued, the parent page of the category has been resolved and memoized in
\* hierarchyMap (every request for a parent page comes before it), and the
\* document is pushed with the memoized id as its parent.
C1_ParentBeforeChild ==
  cmd = "docs" =>
    /\ \A i \in DOMAIN dlog :
         LET category == Docs[dlog[i].path].category
         IN (dlog[i].outcome \in {"created", "updated", "failed"}
             /\ category # NoString) =>
               /\ category \in DOMAIN hierarchyMap
               /\ dlog[i].parentId = hierarchyMap[category]
    /\ \A j \in DOMAIN calls :
         (calls[j].by \in Paths /\ Docs[calls[j].by].category # NoString) =>
           /\ Docs[calls[j].by].category \in DOMAIN hierarchyMap
           /\ calls[j].op = "create" =>
                calls[j].parent = hierarchyMap[Docs[calls[j].by].category]
           /\ \A k \in DOMAIN calls : calls[k].by = "container" => k < j

C1_Witness ==
  /\ cmd = "docs"
  /\ \E j, k \in DOMAIN calls :
       /\ calls[k].by = "container" /\ calls[k].op = "create" /\ calls[k].ok
       /\ calls[j].by \in Paths /\ calls[j].op = "create" /\ calls[j].ok
       /\ calls[j].parent = calls[k].id

Prefixes(categoryPath) ==
  {SubSeq(Segments(categoryPath), 1, k) :
     k \in 1 .. Len(Segments(categoryPath))}

\* C2: a syncDocs run that starts from a space without container pages and
\* completes its hierarchy step has issued exactly one page creation per
\* distinct category-path prefix of its documents.
C2_OneCreationPerPrefix ==
  (cmd = "docs" /\ runs = 1 /\ pc = "docs") =>
    Cardinality({j \in DOMAIN calls :
                   calls[j].by = "container" /\ calls[j].op = "create"})
    = Cardinality(UNION {Prefixes(Docs[documents[i].path].category) :
                           i \in DOMAIN documents})

\* C3: every updatePage request carries the successor of the page's version on
\* the wiki at that moment, and the writes of one command to one page carry
\* strictly increasing versions, each issued on the result of the one before.
C3_SequentialVersions ==
  /\ \A i \in DOMAIN calls :
       calls[i].op = "update" => calls[i].sent = calls[i].cur + 1
  /\ \A i, j \in DOMAIN calls :
       (i < j /\ calls[i].id = calls[j].id /\ calls[i].ok) =>
         /\ calls[i].sent < calls[j].sent
         /\ calls[j].cur >= calls[i].sent

C3_Witness ==
  \E i, j \in DOMAIN calls :
    /\ i < j /\ calls[i].id = calls[j].id
    /\ calls[i].ok /\ calls[j].ok /\ calls[j].op = "update"
    /\ calls[j].sent = calls[i].sent + 1

\* C4: a syncDocs run right after a syncDocs run in which every document
\* succeeded, over the same unchanged documents, skips every document and
\* issues no createPage or updatePage request.
C4_SecondRunIdle ==
  (cmd = "docs" /\ ~dryRun /\ prev.clean) =>
    /\ calls = <<>>
    /\ \A i \in DOMAIN dlog : dlog[i].outcome = "skipped"

\* C5 as claimed: reverse sync rewrites the file of a tracked page if and only
\* if the remote version is greater than the recorded one.
C5_RewriteIffNewer ==
  cmd = "reverse" =>
    \A i \in DOMAIN dlog :
      (dlog[i].outcome = "updated")
        <=> (wiki[pages[dlog[i].path].confluenceId].version > dlog[i].last)

ReversePageRewrites ==
  (pc = "reverse" /\ index' = index + 1) =>
    LET filePath == documents[index].path
        pageInfo == pages[filePath]
        outcome == dlog'[Len(dlog')].outcome
        recorded == IF pageInfo.version = 0 THEN 1 ELSE pageInfo.version
        due == /\ pageInfo.confluenceId # NoPage
               /\ ~dryRun
               /\ files[filePath].exists
               /\ outcome \notin {"error", "failed"}
               /\ wiki[pageInfo.confluenceId].version > recorded
    IN /\ (files'[filePath] # files[filePath]) <=> due
       /\ due => pages'[filePath].version = wiki[pageInfo.confluenceId].version
       /\ ~due => pages'[filePath] = pages[filePath]
       /\ \A p \in Paths \ {filePath} :
            files'[p] = files[p] /\ pages'[p] = pages[p]

\* C5 as amended: in a reverse sync that is not a dry run, a tracked page whose
\* fetch and conversion do not fail and whose local file exists is rewritten if
\* and only if its remote version is greater than the recorded one (a record
\* without a version counts as version 1); in every other case the file and
\* the record are left untouched.
C5_RewriteIffNewerAndPossible == [][ReversePageRewrites]_vars

C5_Witness ==
  /\ cmd = "reverse" /\ ~dryRun
  /\ \E i, j \in DOMAIN dlog :
       dlog[i].outcome = "updated" /\ dlog[j].outcome = "unchanged"

\* C6: the reverse sync that follows a successful push, with no edit on the
\* wiki in between, treats every page just pushed as unchanged.
C6_PushedPageUnchanged ==
  cmd = "reverse" =>
    \A i \in DOMAIN dlog :
      dlog[i].path \in prev.pushed =>
        dlog[i].outcome \notin {"would", "updated", "failed"}

VersionKept ==
  \A p \in Paths :
    (ledger[p] # None /\ ledger'[p] # None) =>
      ledger'[p].version >= ledger[p].version

C8_DryRunPushWritesNothing ==
  (cmd \in {"docs", "file"} /\ dryRun) => (calls = <<>> /\ ledgerWrites = 0)

\* C9: a dry-run reverse sync writes no Markdown file and no file under
\* images/, and leaves every record unchanged.
C9_DryRunReverseWritesNothing ==
  (cmd = "reverse" /\ dryRun) =>
    /\ \A i \in DOMAIN dlog : ~dlog[i].saved /\ dlog[i].outcome # "updated"
    /\ \A p \in Paths : pages[p] = ledger[p]

Count(log, outcome) ==
  Cardinality({i \in DOMAIN log : log[i].outcome = outcome})

\* C10: in syncDocs a failure at one document is caught at that document: the
\* documents are processed one by one in order whatever failed before, each
\* failure adds exactly one to the failed count, no failure at a document ends
\* the command, and the command returns success with the counts.
C10_FailureCaughtAtDocument ==
  cmd = "docs" =>
    /\ Len(dlog) = index - 1
    /\ \A i \in DOMAIN dlog : dlog[i].path = documents[i].path
    /\ stats.failed = Count(dlog, "failed")
    /\ ret.status = "threw" => dlog = <<>>
    /\ (pc = "idle" /\ ret.status = "ok" /\ documents # <<>>) =>
         /\ Len(dlog) = Len(documents)
         /\ ret.success
         /\ ret.stats = stats

C10_Witness ==
  /\ cmd = "docs" /\ pc = "idle" /\ ret.status = "ok"
  /\ Len(dlog) = 2
  /\ dlog[1].outcome = "failed" /\ Pushed(dlog[2].outcome)

\* C11: in syncDocs, when a write request for the parent page of one category
\* fails, only the documents of that category are not pushed: every document
\* of another category or of the root is still processed and the command
\* returns its counts.
C11_ContainerFailureIsLocal ==
  (/\ cmd = "docs" /\ pc = "idle"
   /\ \E j \in DOMAIN calls : calls[j].by = "container" /\ ~calls[j].ok) =>
    /\ ret.status = "ok"
    /\ \A i \in DOMAIN documents :
         Docs[documents[i].path].category # Head(categories) =>
           \E k \in DOMAIN dlog : dlog[k].path = documents[i].path

FailedRequestIsFinal ==
  cmd = "docs" =>
    /\ \A j \in DOMAIN calls :
         (calls[j].by \in Paths /\ ~calls[j].ok) =>
           /\ \A k \in DOMAIN calls : k > j => calls[k].by # calls[j].by
           /\ \E i \in DOMAIN dlog :
                dlog[i].path = calls[j].by /\ dlog[i].outcome = "failed"
    /\ stats.failed = Count(dlog, "failed")
    /\ \A i \in DOMAIN dlog :
         dlog[i].outcome = "failed" =>
           pages[dlog[i].path] = ledger[dlog[i].path]

FailedRecordUntouched ==
  (cmd = "docs" /\ cmd' = "docs" /\ runs' = runs) =>
    \A i \in DOMAIN dlog' :
      dlog'[i].outcome = "failed" =>
        /\ ledger'[dlog'[i].path] = ledger[dlog'[i].path]
        /\ pages'[dlog'[i].path] = pages[dlog'[i].path]

\* C12: in syncDocs a createPage or updatePage request of a document that
\* fails is the last request issued for that document in the run, the document
\* is counted as failed, and its record, in memory and in the persisted state,
\* stays what it was before the run.
C12_FailedRequestNotRetried ==
  []FailedRequestIsFinal /\ [][FailedRecordUntouched]_vars

C12_Witness ==
  /\ cmd = "docs" /\ pc = "idle" /\ ret.status = "ok"
  /\ \E j \in DOMAIN calls :
       /\ calls[j].by \in Paths /\ ~calls[j].ok
       /\ ledger[calls[j].by] # None

\* C13: after a completed syncDocs that is not a dry run, every path recorded
\* in the persisted state is a path of a document found by the scan.
C13_NoOrphanAfterSync ==
  (cmd = "docs" /\ pc = "idle" /\ ~dryRun /\ ret.status = "ok") =>
    \A p \in Paths :
      ledger[p] # None => \E i \in DOMAIN documents : documents[i].path = p

\* C15: every syncDocs that returns, returns the five counts processed,
\* created, updated, skipped and failed.
C15_FiveCounts ==
  (cmd = "docs" /\ pc = "idle" /\ ret.status = "ok") =>
    DOMAIN ret.stats =
      {"processed", "created", "updated", "skipped", "failed"}

\* C16: in syncDocs and in syncFile, when the media step of a document or the
\* update that follows it fails, the page of the document holds the text
\* content pushed by the first write of that document.
C16_TextPushedBeforeMedia ==
  cmd \in {"docs", "file"} =>
    \A i \in DOMAIN dlog :
      (dlog[i].outcome = "failed" /\ dlog[i].stage \in {"images", "patch"}) =>
        /\ \E j \in DOMAIN calls :
             /\ calls[j].by = dlog[i].path /\ calls[j].ok
             /\ wiki[calls[j].id].title = Docs[dlog[i].path].title
             /\ wiki[calls[j].id].body = "doc"

C16_Witness ==
  /\ cmd = "docs"
  /\ \E i \in DOMAIN dlog :
       /\ dlog[i].outcome = "failed" /\ dlog[i].stage = "images"
       /\ \E j \in DOMAIN calls : calls[j].by = dlog[i].path /\ calls[j].ok

CompleteRecord(r) ==
  /\ r # None
  /\ DOMAIN r = {"confluenceId", "title", "category", "lastModified",
                 "parentId", "version"}
  /\ r.confluenceId # NoPage

LedgerStep ==
  (pc # "idle" \/ runs' # runs) =>
    IF pc' # "idle" THEN ledger' = ledger
    ELSE ret'.status \in {"threw", "interrupted"} =>
           \A p \in Paths :
             /\ \/ ledger'[p] = ledger[p]
                \/ ledger'[p] = pages[p] /\ CompleteRecord(pages[p])
             /\ ledger[p] # None => ledger'[p] # None

\* C14: while a command runs the persisted state is not written, and when the
\* command throws or is interrupted the persisted state holds for every path
\* either the record it held before the command or the complete new record of
\* the path; no record held before is lost.
C14_LedgerNeverPartial == [][LedgerStep]_vars

C14_Witness ==
  /\ pc = "idle" /\ ret.status = "interrupted"
  /\ index > Len(documents) /\ dlog # <<>>
  /\ \E p \in Paths : ledger[p] # None /\ ledger[p] = pages[p]
  /\ \E p \in Paths : prev # NoPrev /\ p \in prev.pushed /\ ledger[p] # None

\* C17: the frontmatter block that reverse sync writes is the frontmatter of
\* the original file: the same lines, key by key, in the same textual form.
C17_FrontmatterVerbatim ==
  transform.op = "frontmatter" => transform.output = transform.input

\* C18: the reverse transform of a storage-format info macro with title T and
\* body B is the three lines ':::info T', B, ':::'.
C18_InfoMacroAdmonition ==
  (/\ transform.op = "macro"
   /\ transform.input.nodeName = "ac:structured-macro"
   /\ transform.input.name = "info"
   /\ transform.input.title # "") =>
    transform.output = << ":::info " \o transform.input.title,
                          transform.input.body,
                          ":::" >>

IsSeparatorRow(line) == line \in {"| --- |", "| --- | --- |"}

\* C19: a table whose first row has header cells becomes a header row, one
\* separator row and one data row for each remaining row; a table whose first
\* row has no header cell becomes one data row for each row and no separator
\* row. No row is dropped.
C19_TableRows ==
  (transform.op = "table" /\ transform.input.rows # <<>>) =>
    LET rows == transform.input.rows
        out == transform.output
        separators == {i \in DOMAIN out : IsSeparatorRow(out[i])}
    IN IF \E j \in DOMAIN rows[1] : rows[1][j].name = "TH"
       THEN Len(out) = Len(rows) + 1 /\ separators = {2}
       ELSE Len(out) = Len(rows) /\ separators = {}

\* C20: an image whose alt text contains 'mermaid-diagram' becomes the
\* placeholder mermaid code fence, never an image link.
C20_DiagramPlaceholder ==
  (transform.op = "image"
   /\ Includes(transform.input.alt, <<"mermaid-diagram">>)) =>
    /\ transform.output # <<>>
    /\ transform.output[1] = Fence \o "mermaid"
    /\ transform.output[Len(transform.output)] = Fence

AttachmentReference(node) ==
  \/ node.nodeName = "ac:image" /\ node.ref = "attachment"
  \/ node.nodeName = "IMG" /\ IsAttachmentUrl(node.src)

AttachmentFilename(node) ==
  IF node.nodeName = "ac:image" THEN node.value[1]
  ELSE node.src[Len(node.src)]

ImageLink(alt, target) == "![" \o alt \o "](" \o target \o ")"

IsDiagram(node) == Includes(node.alt, <<"mermaid-diagram">>)

\* C21: an attachment-style image reference, converted with the page's
\* attachment metadata or converted the way reverse sync calls the transform,
\* comes out as an image link to images/<filename>; it is neither lost nor
\* left in another form.
C21_AttachmentMappedLocal ==
  (/\ transform.op = "image"
   /\ AttachmentReference(transform.input)
   /\ ~IsDiagram(transform.input)
   /\ transform.env.attachments \/ transform.env = ReverseEnv(transform.env))
  =>
    LET filename == AttachmentFilename(transform.input)
        target == "images/" \o SafeFilename(filename)
    IN transform.output \in
         {<<ImageLink(alt, target)>> :
            alt \in {Concat(transform.input.alt), filename}}

\* a download was tried for the image and none succeeded
DownloadFailed ==
  /\ transform.fetched # <<>>
  /\ ~transform.wrote

\* C22: when the download of an attachment image fails, the conversion still
\* yields the image as ![alt](url) with the remote URL the page gave for it.
C22_FailedDownloadKeepsUrl ==
  (/\ transform.op = "image"
   /\ AttachmentReference(transform.input)
   /\ ~IsDiagram(transform.input)
   /\ DownloadFailed)
  =>
    IF transform.input.nodeName = "IMG"
    THEN transform.output = <<ImageLink(Concat(transform.input.alt),
                                        Concat(transform.input.src))>>
    ELSE Len(transform.output) = 1

\* encodeURIComponent-style title of a page URL: a space becomes '+'
UrlEncodedTitle(title) ==
  [i \in DOMAIN title |-> IF title[i] = " " THEN "+" ELSE title[i]]

\* C23: the URL a command returns for a synced page is
\* {baseUrl}/wiki/spaces/{spaceKey}/pages/{pageId}/{urlEncodedTitle}.
C23_ModernPageUrl ==
  (ret.status = "ok" /\ "url" \in DOMAIN ret) =>
    ret.url = <<BaseUrl, "/wiki/spaces/", SpaceKey, "/pages/", ret.pageId,
                "/", UrlEncodedTitle(ret.title)>>

\* C24: an image the page references by an external URL comes out as an
\* image link to that same URL, whether the fetch of the image succeeds or not.
C24_ExternalUrlKept ==
  (/\ transform.op = "image"
   /\ transform.input.nodeName = "ac:image"
   /\ transform.input.ref = "url")
  =>
    transform.output \in
      {<<ImageLink(alt, Concat(transform.input.value))>> :
         alt \in {Concat(transform.input.alt), "Confluence Image"}}

\* the step of reverse sync in which the fetch of a tracked page failed
FetchFailed ==
  /\ pc = "reverse"
  /\ Len(dlog') = Len(dlog) + 1
  /\ dlog'[Len(dlog')].outcome = "error"

\* the failed page is left as it was and counted as skipped, the loop goes on
FetchFailureSkips ==
  FetchFailed =>
    /\ files' = files
    /\ pages' = pages
    /\ ledger' = ledger
    /\ stats' = [stats EXCEPT !.skipped = @ + 1]
    /\ pc' = "reverse"
    /\ index' = index + 1

\* a reverse sync that returns has handled every tracked page
ReverseChecksAll ==
  (cmd = "reverse" /\ pc = "idle" /\ ret.status = "ok") =>
    Len(dlog) = Len(documents)

\* C25: when the fetch of a tracked page fails during reverse sync, the local
\* file and the SyncRecord of that page stay as they were, the page is counted
\* as skipped, and the remaining tracked pages are still checked.
C25_FetchFailureIsSkip == []ReverseChecksAll /\ [][FetchFailureSkips]_vars

\* a returned reverse sync in which a fetch failed and a later page was checked
C25_Witness ==
  /\ cmd = "reverse" /\ pc = "idle" /\ ret.status = "ok"
  /\ \E i \in DOMAIN dlog :
       /\ dlog[i].outcome = "error"
       /\ i < Len(dlog)
       /\ ret.stats.skipped >= 1

\* C26: within one syncDocs run no category-path prefix is looked up on the
\* wiki more than once.
C26_PrefixLookedUpOnce ==
  cmd = "docs" =>
    \A i, j \in DOMAIN lookups : i # j => lookups[i] # lookups[j]

\* hyphens to spaces, then title case
TitleCase(segment) == CapitalizeWords(ReplaceHyphens(segment))

\* the titles of the container pages of a category, outermost first
TitlesOf(category) ==
  [i \in DOMAIN Segments(category) |-> TitleCase(Segments(category)[i])]

\* the categories resolved earlier in the run whose segments format to the
\* titles of the category resolved now
Colliding ==
  {c \in DOMAIN hierarchyMap :
     c # Head(categories) /\ TitlesOf(c) = TitlesOf(Head(categories))}

\* resolving a category that collides with an earlier one creates no page and
\* yields the page of the earlier one
CollisionResolvesToFirst ==
  (/\ pc = "hierarchy"
   /\ categories # <<>>
   /\ categories' = Tail(categories)
   /\ Colliding # {})
  =>
    /\ Len(wiki') = Len(wiki)
    /\ \A i \in DOMAIN calls' : i > Len(calls) => calls'[i].op # "create"
    /\ \A c \in Colliding : hierarchyMap'[Head(categories)] = hierarchyMap[c]

CanDownload ==
  transform.input.nodeName = "ac:image" =>
    transform.env.attachments /\ transform.env.client /\ transform.env.link

\* C28: for every attachment image that can be downloaded, the download is
\* skipped exactly when a local file of that name exists and is newer than the
\* version of the attachment; otherwise the attachment is downloaded, and a
\* download that succeeds replaces the local file.
C28_SkipIffLocalNewer ==
  (/\ transform.op = "image"
   /\ AttachmentReference(transform.input)
   /\ CanDownload) =>
    LET env == transform.env
        skip == env.exists /\ env.mtime > env.when
    IN /\ skip => transform.fetched = <<>>
       /\ ~skip => transform.fetched # <<>>
       /\ (~skip /\ env.apiOk /\ env.httpOk) => transform.wrote

\* C29: the reverse transform of a note or warning macro is an admonition of
\* the same type; its first line is ':::<type> <title>' when the macro has a
\* title and ':::<type>' with nothing after it when it has none.
C29_NoteWarningAdmonition ==
  (/\ transform.op = "macro"
   /\ transform.input.nodeName = "ac:structured-macro"
   /\ transform.input.name \in {"note", "warning"})
  =>
    LET macro == transform.input
        first == IF macro.title = "" THEN ":::" \o macro.name
                 ELSE ":::" \o macro.name \o " " \o macro.title
    IN transform.output = <<first, macro.body, ":::">>

\* a warning macro without a title was converted
C29_Witness ==
  /\ transform.op = "macro"
  /\ transform.input.nodeName = "ac:structured-macro"
  /\ transform.input.name = "warning"
  /\ transform.input.title = ""
  /\ transform.output = <<":::warning", transform.input.body, ":::">>

\* C30: the SyncRecords of two distinct paths never hold the same remote page
\* id.
C30_DistinctPagesPerPath ==
  \A path1, path2 \in Paths :
    (/\ path1 # path2
     /\ ledger[path1] # None
     /\ ledger[path2] # None)
    => ledger[path1].confluenceId # ledger[path2].confluenceId

\* resolving the container page of a category leaves every existing page as
\* it was
HierarchyKeepsPages ==
  pc = "hierarchy" => \A id \in DOMAIN wiki : wiki'[id] = wiki[id]

\* C31: findOrCreateParentPage never modifies a page that already exists; it
\* reuses a page unchanged or creates a new one.
C31_HierarchyModifiesNoPage == [][HierarchyKeepsPages]_vars

\* no two pages of the space have the same title under the same parent
NoTwinPages ==
  \A id1, id2 \in DOMAIN wiki :
    (id1 # id2 /\ wiki[id1].title = wiki[id2].title)
    => wiki[id1].parent # wiki[id2].parent

\* C32: also after read requests that failed, the space never holds two pages
\* with the same title under the same parent.
C32_FailedReadMakesNoTwin ==
  (transform.op = "client" /\ transform.readFailed) => NoTwinPages

\* the undisturbed push that follows a reverse sync skips what it rewrote
QuietPushSkipsPulled ==
  (cmd = "docs" /\ ~dryRun /\ events = 0) =>
    \A i \in DOMAIN dlog :
      dlog[i].path \in prev.pulled => dlog[i].outcome = "skipped"

\* the undisturbed reverse sync that follows that push leaves alone what the
\* reverse sync before the push rewrote
QuietPullSkipsSettled ==
  (cmd = "reverse" /\ ~dryRun /\ events = 0) =>
    \A i \in DOMAIN dlog :
      dlog[i].path \in prev.before => dlog[i].outcome = "unchanged"

\* C33: with no edit on either side, alternating pushes and reverse syncs come
\* to rest: the syncDocs that follows a reverse sync skips every file that the
\* reverse sync rewrote, and the reverse sync after that push rewrites none
\* of them.
C33_PushPullQuiescence == QuietPushSkipsPulled /\ QuietPullSkipsSettled

\* C34: in a syncDocs that is not a dry run, after every document of the loop
\* and in the counts returned with the summary, processed = created + updated
\* and processed + skipped + failed is the number of documents handled: each
\* scanned document is counted in exactly one of created, updated, skipped
\* and failed.
C34_CountsPartitionDocuments ==
  (cmd = "docs" /\ ~dryRun /\ documents # <<>>) =>
    /\ stats.processed = stats.created + stats.updated
    /\ stats.processed + stats.skipped + stats.failed = index - 1
    /\ stats.created = Count(dlog, "created")
    /\ stats.updated = Count(dlog, "updated")
    /\ stats.skipped = Count(dlog, "skipped")
    /\ stats.failed = Count(dlog, "failed")
    /\ (pc = "idle" /\ ret.status = "ok") =>
         /\ ret.stats.processed = ret.stats.created + ret.stats.updated
         /\ ret.stats.processed + ret.stats.skipped + ret.stats.failed
              = Len(documents)

C34_Witness ==
  /\ cmd = "docs" /\ ~dryRun /\ pc = "idle" /\ ret.status = "ok"
  /\ Len(documents) = 2
  /\ \E i, j \in DOMAIN dlog :
       dlog[i].outcome = "skipped" /\ dlog[j].outcome = "failed"
  /\ ret.stats.skipped = 1 /\ ret.stats.failed = 1

\* one turn of the loop of syncReverse
ReverseTurn == pc = "reverse" /\ index' = index + 1

\* a file is written only where a file exists and the path is tracked with a
\* page id, and no file comes into being
RewritesOnlyTrackedFiles ==
  ReverseTurn =>
    \A p \in Paths :
      /\ files'[p].exists = files[p].exists
      /\ (imageFiles'[p] # imageFiles[p] \/ files'[p] # files[p]) =>
           /\ p = documents[index].path /\ files[p].exists
           /\ pages[p] # None /\ pages[p].confluenceId # NoPage

\* a tracked page without its local file: skipped, nothing written
MissingFileIsSkipped ==
  (/\ ReverseTurn
   /\ pages[documents[index].path].confluenceId # NoPage
   /\ ~files[documents[index].path].exists) =>
    /\ stats' = [stats EXCEPT !.skipped = @ + 1]
    /\ files' = files /\ imageFiles' = imageFiles /\ pages' = pages

\* a record without a page id: nothing counted, nothing written
RecordWithoutIdIsIgnored ==
  (ReverseTurn /\ pages[documents[index].path].confluenceId = NoPage) =>
    /\ stats' = stats /\ events' = events
    /\ files' = files /\ imageFiles' = imageFiles /\ pages' = pages

\* the state saved at the end differs from the stored one only in the records
\* of the files the run rewrote
SavedRecordsOfRewritten ==
  (pc = "reverse" /\ pc' = "idle" /\ ret'.status = "ok") =>
    \A p \in Paths :
      ledger'[p] # ledger[p] =>
        \E i \in DOMAIN dlog : dlog[i].path = p /\ dlog[i].outcome = "updated"

\* C35: reverse sync rewrites only files that exist locally and whose path is
\* tracked with a page id: for a tracked page whose local file is missing the
\* skipped count grows by one, no file is created and the record stays as it
\* was; a record without a page id is passed over with no count and no write.
C35_OnlyTrackedExistingFiles ==
  [][/\ RewritesOnlyTrackedFiles
     /\ MissingFileIsSkipped
     /\ RecordWithoutIdIsIgnored
     /\ SavedRecordsOfRewritten]_vars

C35_Witness ==
  /\ cmd = "reverse" /\ ~dryRun /\ pc = "idle" /\ ret.status = "ok"
  /\ \E i, j \in DOMAIN dlog :
       /\ dlog[i].outcome = "ignored"
       /\ dlog[j].outcome = "nofile"
       /\ ~files[dlog[j].path].exists
       /\ ledger[dlog[j].path] # None
       /\ ledger[dlog[j].path].version < wiki[ledger[dlog[j].path].confluenceId].version
  /\ ret.stats.skipped = 1

\* C36: the syncDocs that follows an interrupted syncDocs, with no edit in
\* between, skips every document that the interrupted run had pushed, and
\* creates no page for it.
C36_InterruptedPushRecognized ==
  (cmd = "docs" /\ ~dryRun) =>
    /\ \A i \in DOMAIN dlog :
         dlog[i].path \in prev.cut => dlog[i].outcome = "skipped"
    /\ \A j \in DOMAIN calls :
         calls[j].by \in prev.cut => calls[j].op # "create"
====
